---- MODULE Spec2Model ----
(***************************************************************************)
(* State-machine model of src/src/client.py (class FTPClient): the PUT,    *)
(* GET and LIST flows of a single client run over one TCP socket.          *)
(*                                                                         *)
(* The program is sequential; every blocking socket call, every loop       *)
(* iteration and every validation block is one step.  The peer and the     *)
(* operating system are the environment: what connect, sendall and recv    *)
(* return is chosen nondeterministically among the outcomes they have.     *)
(***************************************************************************)
EXTENDS Integers, Sequences, FiniteSets, TLC

(***************************************************************************)
(* Python integers are unbounded, the checker's are 32 bit.  A byte count  *)
(* n is the record [hi, lo] with n = hi * Base + lo and 0 <= lo < Base     *)
(* (hi carries the sign), which covers the 5 GiB limit of put_file and     *)
(* the powers of 1024 of get_filesize.                                     *)
(***************************************************************************)
Base == 1024 * 1024

Big(h, l) == [hi |-> h, lo |-> l]

BigOf(n) == Big(n \div Base, n % Base)

BigLT(a, b) == a.hi < b.hi \/ (a.hi = b.hi /\ a.lo < b.lo)

BigLE(a, b) == a = b \/ BigLT(a, b)

BigGT(a, b) == BigLT(b, a)

\* a + n for a machine-size n
BigAdd(a, n) == Big(a.hi + ((a.lo + n) \div Base), (a.lo + n) % Base)

\* a - b when the difference is machine-size
BigDiff(a, b) == (a.hi - b.hi) * Base + (a.lo - b.lo)

\* bounds of the exploration
MaxChunks == 3
MaxRecvs == 3

\* upload.read(4096), recv(4096)
ChunkSize == 4096

\* len(filename) > 255
MaxNameLen == 255

\* os.path.getsize(...) > 5368709120, i.e. 5 * 1024^3 = 5120 * Base
MaxPutSize == Big(5120, 0)

protocol_errors ==
    [ FileAlreadyExists |-> "File already exists in current directory",
      FileNotFound |-> "File could not be found in current directory",
      FileTooLarge |-> "File is too large to transfer (over 5GB in size)",
      FileZeroSized |-> "File is a zero-sized file (does not contain data)",
      FileNameTooLong |-> "Filename of file is too long (over 255 chars)",
      FileIsDirectory |-> "File is actually a directory (folder containing files)" ]

protocol_messages ==
    [ FileOkTransfer |-> "No existing file present, OK to create new file.",
      FileSizeReceived |-> "The filesize of file being transferred has successfully been received." ]

ErrorTokens == DOMAIN protocol_errors

InfoTokens == DOMAIN protocol_messages

(***************************************************************************)
(* get_filesize: the number of divisions by 1024.  size_bytes / 1024.00 is *)
(* exact (a power of two), so after i divisions the loop test              *)
(* size_bytes > 1024 is size > 1024^(i+1).  sizes has 4 entries: an index  *)
(* of 4 or 5 raises IndexError.                                            *)
(***************************************************************************)
Pow1024(k) ==
    CASE k = 1 -> Big(0, 1024)
      [] k = 2 -> Big(1, 0)
      [] k = 3 -> Big(1024, 0)
      [] k = 4 -> Big(1024 * 1024, 0)
      [] k = 5 -> Big(1024 * 1024 * 1024, 0)

\* a loop test with >= in place of >
get_filesize_test_ge(size, i) == i < 5 /\ BigLE(Pow1024(i + 1), size)

\* while size_bytes > 1024 and i < 5, after i divisions
get_filesize_test(size, i) == i < 5 /\ BigGT(size, Pow1024(i + 1))

RECURSIVE get_filesize_loop(_, _)
get_filesize_loop(size, i) ==
    IF get_filesize_test(size, i)
    THEN get_filesize_loop(size, i + 1)
    ELSE i

sizes == <<"B", "KB", "MB", "GB">>

\* the suffix index get_filesize selects
get_filesize(size) == get_filesize_loop(size, 0)

\* sizes[i] raises IndexError
get_filesize_raises(size) == get_filesize(size) >= Len(sizes)

(***************************************************************************)
(* str(n) and int(s) on decimal digit sequences                            *)
(***************************************************************************)
BigDiv10(a) == Big(a.hi \div 10, ((a.hi % 10) * Base + a.lo) \div 10)

BigMod10(a) == ((a.hi % 10) * Base + a.lo) % 10

RECURSIVE str(_)
str(n) ==
    IF n.hi = 0 /\ n.lo < 10
    THEN <<n.lo>>
    ELSE Append(str(BigDiv10(n)), BigMod10(n))

RECURSIVE int_digits(_)
int_digits(ds) ==
    IF Len(ds) = 0
    THEN Big(0, 0)
    ELSE LET p == int_digits(SubSeq(ds, 1, Len(ds) - 1))
             l == p.lo * 10 + ds[Len(ds)]
         IN  Big(p.hi * 10 + (l \div Base), l % Base)

BigNeg(a) == IF a.lo = 0 THEN Big(0 - a.hi, 0) ELSE Big(0 - a.hi - 1, Base - a.lo)

VARIABLES
    command,          \* self.command[0]
    file,             \* the file named by self.command[1] in os.getcwd()
    pc,               \* position of the run
    sock,             \* self.cli_socket: "fresh", "connected" or "closed"
    connected,        \* self.connected
    trace,            \* the socket calls made so far, in order
    response,         \* response of put_file / get_file / show_list
    file_size,        \* get_file: file_size
    bytes_collected,  \* get_file: bytes_collected
    bytes_sent,       \* put_file: bytes_sent
    data,             \* put_file: len(data) of the chunk read last
    file_pos,         \* put_file: read position of upload
    iterations,       \* loop iterations of the running transfer
    download_file,    \* get_file: the local file written
    exit              \* how the process ended

vars == <<command, file, pc, sock, connected, trace, response, file_size,
          bytes_collected, bytes_sent, data, file_pos, iterations,
          download_file, exit>>

\* one socket call: conn is self.connected when the call is made, ok is
\* whether the call returned (FALSE: it raised); val is the decimal text of
\* a size, len the number of payload bytes of a chunk
Ev(op, msg, val, len, conn, ok) ==
    [op |-> op, msg |-> msg, val |-> val, len |-> len, conn |-> conn, ok |-> ok]

Running == [kind |-> "running", origin |-> "", token |-> "", text |-> ""]

\* start() returned: the process ends with status 0
Returned == [kind |-> "returned", origin |-> "", token |-> "", text |-> ""]

\* raise SystemExit("[ERR] %s" % message)
SystemExit(origin, token, text) ==
    [kind |-> "SystemExit", origin |-> origin, token |-> token, text |-> text]

\* an exception nothing catches
Uncaught(name) == [kind |-> name, origin |-> "", token |-> "", text |-> ""]

NoFile == [created |-> FALSE, written |-> Big(0, 0), closed |-> FALSE]

\* a response is text; a decimal one carries its digits; bytes that are no
\* UTF-8 make decode() raise
Text(t) == [kind |-> "text", text |-> t, neg |-> FALSE, digits |-> <<>>]

Decimal(b) ==
    [kind |-> "decimal", text |-> "", neg |-> b.hi < 0,
     digits |-> IF b.hi < 0 THEN str(BigNeg(b)) ELSE str(b)]

Binary == [kind |-> "binary", text |-> "", neg |-> FALSE, digits |-> <<>>]

\* int(response); a response that is no decimal raises ValueError
int_raises(r) == r.kind # "decimal"

int(r) == IF r.neg THEN BigNeg(int_digits(r.digits)) ELSE int_digits(r.digits)

\* a table of errors that lacks FileTooLarge
is_protocol_error_partial(r) ==
    r.kind = "text" /\ r.text \in (ErrorTokens \ {"FileTooLarge"})

\* response in self.protocol_errors
is_protocol_error(r) == r.kind = "text" /\ r.text \in ErrorTokens

\* response in self.protocol_messages
is_protocol_message(r) == r.kind = "text" /\ r.text \in InfoTokens

\* what a response is on the wire, for the trace
Wire(r) == IF r.kind = "text" THEN r.text ELSE r.kind

\* sizes of the local file put_file is given
FileSizes ==
    { BigOf(0), BigOf(1), BigOf(ChunkSize - 1), BigOf(ChunkSize),
      BigOf(ChunkSize + 1), BigOf(2 * ChunkSize), BigOf(2 * ChunkSize + 1),
      MaxPutSize, BigAdd(MaxPutSize, 1) }

NameLens == {1, MaxNameLen, MaxNameLen + 1}

Files ==
    { [exists |-> FALSE, nameLen |-> n, isDir |-> FALSE, size |-> BigOf(0)] : n \in NameLens }
    \cup
    { [exists |-> TRUE, nameLen |-> n, isDir |-> d, size |-> s] :
        n \in NameLens, d \in BOOLEAN, s \in FileSizes }

NoFileArg == [exists |-> FALSE, nameLen |-> 1, isDir |-> FALSE, size |-> BigOf(0)]

\* what the peer may answer: any token, nothing, other text, a decimal
TokenResponses == { Text(t) : t \in ErrorTokens \cup InfoTokens }

AnnouncedSizes ==
    { BigOf(0 - 5000), BigOf(0), BigOf(1), BigOf(ChunkSize), BigOf(ChunkSize + 1),
      BigOf(2 * ChunkSize), Pow1024(4), BigAdd(Pow1024(4), 1) }

Responses ==
    TokenResponses \cup {Text(""), Text("garbage"), Binary}
    \cup { Decimal(b) : b \in AnnouncedSizes }

ListResponses == {Text(""), Text("a.txt b.txt"), Binary}

\* lengths recv(4096) may return; 0 when the peer has closed
RecvLens == {0, 1, ChunkSize - 1, ChunkSize}

\* __init__: the socket is created, connected is False
Init ==
    /\ command \in {"put", "get", "list"}
    /\ file \in (IF command = "list" THEN {NoFileArg} ELSE Files)
    /\ pc = "start"
    /\ sock = "fresh"
    /\ connected = FALSE
    /\ trace = <<>>
    /\ response = Text("")
    /\ file_size = Big(0, 0)
    /\ bytes_collected = Big(0, 0)
    /\ bytes_sent = Big(0, 0)
    /\ data = 0
    /\ file_pos = Big(0, 0)
    /\ iterations = 0
    /\ download_file = NoFile
    /\ exit = Running

\* an exception propagates out of start(): the process dies with a traceback
raise(name, tr) ==
    /\ pc' = "crash"
    /\ exit' = Uncaught(name)
    /\ trace' = tr
    /\ UNCHANGED connected

\* the run goes on at position p
goto(p, tr) ==
    /\ pc' = p
    /\ trace' = tr
    /\ UNCHANGED <<connected, exit>>

\* sendall / send return only on a connected socket whose peer takes the
\* bytes; on a socket that was never connected they raise OSError (EPIPE)
sendall_returns(delivered) == sock = "connected" /\ delivered

\* a disconnect without its test of self.connected
disconnect_always(tr, sent) ==
    Append(tr, Ev("send", "DISCONNECT", <<>>, 0, FALSE, sendall_returns(sent)))

\* disconnect: connected is reset, then DISCONNECT is sent; sent = FALSE is
\* the send raising OSError
disconnect(tr, sent) ==
    IF connected
    THEN Append(tr, Ev("send", "DISCONNECT", <<>>, 0, FALSE, sendall_returns(sent)))
    ELSE tr

\* a log that lets the OSError of the DISCONNECT send through
log_ERR_propagates(origin, token, text, tr) ==
    \E sent \in BOOLEAN :
        /\ trace' = disconnect(tr, sent)
        /\ connected' = FALSE
        /\ IF connected /\ ~sendall_returns(sent)
           THEN pc' = "crash" /\ exit' = Uncaught("OSError")
           ELSE pc' = "exit" /\ exit' = SystemExit(origin, token, text)

\* log("ERR", message): disconnect() with OSError swallowed, then SystemExit
log_ERR(origin, token, text, tr) ==
    /\ \E sent \in BOOLEAN : trace' = disconnect(tr, sent)
    /\ connected' = FALSE
    /\ pc' = "exit"
    /\ exit' = SystemExit(origin, token, text)

\* start: dispatch on self.command[0]
start ==
    /\ pc = "start"
    /\ pc' = CASE command = "put" -> "put_validate"
               [] command = "get" -> "get_check"
               [] command = "list" -> "connect"
    /\ UNCHANGED <<command, file, sock, connected, trace, response, file_size,
                   bytes_collected, bytes_sent, data, file_pos, iterations,
                   download_file, exit>>

\* a connect that sets self.connected before the socket is connected, so
\* that the error path notifies a peer that is not there
connect_flag_first ==
    /\ pc = "connect"
    /\ \E outcome \in {"ok", "refused", "oserror"} :
         LET tr == Append(trace, Ev("connect", outcome, <<>>, 0, connected, outcome = "ok"))
         IN  CASE outcome = "ok" ->
                    /\ sock' = "connected"
                    /\ connected' = TRUE
                    /\ trace' = tr
                    /\ pc' = CASE command = "put" -> "put_request"
                               [] command = "get" -> "get_request"
                               [] command = "list" -> "list_request"
                    /\ UNCHANGED exit
               [] outcome = "refused" ->
                    /\ sock' = "closed"
                    /\ trace' = Append(tr, Ev("send", "DISCONNECT", <<>>, 0, FALSE, FALSE))
                    /\ connected' = FALSE
                    /\ pc' = "exit"
                    /\ exit' = SystemExit("connect", "", "An error occurred when connecting to host")
               [] outcome = "oserror" ->
                    /\ raise("OSError", tr)
                    /\ UNCHANGED sock
    /\ UNCHANGED <<command, file, response, file_size, bytes_collected,
                   bytes_sent, data, file_pos, iterations, download_file>>

\* a connect that tries again after a refusal
connect_retries ==
    /\ pc = "connect"
    /\ \E outcome \in {"ok", "refused", "oserror"} :
         LET tr == Append(trace, Ev("connect", outcome, <<>>, 0, connected, outcome = "ok"))
         IN  CASE outcome = "ok" ->
                    /\ sock' = "connected"
                    /\ connected' = TRUE
                    /\ trace' = tr
                    /\ pc' = CASE command = "put" -> "put_request"
                               [] command = "get" -> "get_request"
                               [] command = "list" -> "list_request"
                    /\ UNCHANGED exit
               [] outcome = "refused" ->
                    IF Len(trace) = 0
                    THEN /\ goto("connect", tr)
                         /\ UNCHANGED sock
                    ELSE /\ sock' = "closed"
                         /\ log_ERR("connect", "", "An error occurred when connecting to host", tr)
               [] outcome = "oserror" ->
                    /\ raise("OSError", tr)
                    /\ UNCHANGED sock
    /\ UNCHANGED <<command, file, response, file_size, bytes_collected,
                   bytes_sent, data, file_pos, iterations, download_file>>

\* connect: success, a caught failure (socket.gaierror,
\* ConnectionRefusedError) or any other OSError (timeout, unreachable)
connect ==
    /\ pc = "connect"
    /\ \E outcome \in {"ok", "refused", "oserror"} :
         LET tr == Append(trace, Ev("connect", outcome, <<>>, 0, connected, outcome = "ok"))
         IN  CASE outcome = "ok" ->
                    /\ sock' = "connected"
                    /\ connected' = TRUE
                    /\ trace' = tr
                    /\ pc' = CASE command = "put" -> "put_request"
                               [] command = "get" -> "get_request"
                               [] command = "list" -> "list_request"
                    /\ UNCHANGED exit
               [] outcome = "refused" ->
                    /\ sock' = "closed"
                    /\ log_ERR("connect", "", "An error occurred when connecting to host", tr)
               [] outcome = "oserror" ->
                    /\ raise("OSError", tr)
                    /\ UNCHANGED sock
    /\ UNCHANGED <<command, file, response, file_size, bytes_collected,
                   bytes_sent, data, file_pos, iterations, download_file>>

\* the chain with the directory check ahead of the name check
put_file_check_reordered(f) ==
    IF ~f.exists THEN "FileNotFound"
    ELSE IF f.isDir THEN "FileIsDirectory"
    ELSE IF f.nameLen > MaxNameLen THEN "FileNameTooLong"
    ELSE IF BigGT(f.size, MaxPutSize) THEN "FileTooLarge"
    ELSE IF f.size = BigOf(0) THEN "FileZeroSized"
    ELSE ""

\* the chain without its last check
put_file_check_nozero(f) ==
    IF ~f.exists THEN "FileNotFound"
    ELSE IF f.nameLen > MaxNameLen THEN "FileNameTooLong"
    ELSE IF f.isDir THEN "FileIsDirectory"
    ELSE IF BigGT(f.size, MaxPutSize) THEN "FileTooLarge"
    ELSE ""

\* the chain without its size limit
put_file_check_nolimit(f) ==
    IF ~f.exists THEN "FileNotFound"
    ELSE IF f.nameLen > MaxNameLen THEN "FileNameTooLong"
    ELSE IF f.isDir THEN "FileIsDirectory"
    ELSE IF f.size = BigOf(0) THEN "FileZeroSized"
    ELSE ""

\* put_file, the if/elif chain: the token of the first check that fails,
\* "" when all pass
put_file_check(f) ==
    IF ~f.exists THEN "FileNotFound"
    ELSE IF f.nameLen > MaxNameLen THEN "FileNameTooLong"
    ELSE IF f.isDir THEN "FileIsDirectory"
    ELSE IF BigGT(f.size, MaxPutSize) THEN "FileTooLarge"
    ELSE IF f.size = BigOf(0) THEN "FileZeroSized"
    ELSE ""

\* put_file, validation: a failing check sends its token on the socket (which
\* connect() has not touched yet) and logs the error
put_file_validate ==
    /\ pc = "put_validate"
    /\ LET token == put_file_check(file)
       IN  IF token = ""
           THEN goto("connect", trace)
           ELSE \E delivered \in BOOLEAN :
                  LET ok == sendall_returns(delivered)
                      tr == Append(trace, Ev("send", token, <<>>, 0, connected, ok))
                  IN  IF ok
                      THEN log_ERR("local", token, protocol_errors[token], tr)
                      ELSE raise("OSError", tr)
    /\ UNCHANGED <<command, file, sock, response, file_size, bytes_collected,
                   bytes_sent, data, file_pos, iterations, download_file>>

\* sendall of a request line: "PUT <filename>", "GET <filename>", "LIST"
request(line, next) ==
    /\ \E delivered \in BOOLEAN :
         LET ok == sendall_returns(delivered)
             tr == Append(trace, Ev("send", line, <<>>, 0, connected, ok))
         IN  IF ok THEN goto(next, tr) ELSE raise("OSError", tr)
    /\ UNCHANGED <<command, file, sock, response, file_size, bytes_collected,
                   bytes_sent, data, file_pos, iterations, download_file>>

put_file_request ==
    /\ pc = "put_request"
    /\ request("PUT", "put_recv")

\* a read that always fills its buffer
read_full(pos) == IF BigLT(pos, file.size) THEN ChunkSize ELSE 0

\* upload.read(4096) at read position pos
read(pos) ==
    IF BigLE(BigAdd(pos, ChunkSize), file.size)
    THEN ChunkSize
    ELSE BigDiff(file.size, pos)

\* put_file: recv(24), the classification of the response, and for an
\* informational token the decimal size and the first read of the file
put_file_response ==
    /\ pc = "put_recv"
    /\ \/ /\ raise("OSError", Append(trace, Ev("recv", "", <<>>, 0, connected, FALSE)))
          /\ UNCHANGED <<response, bytes_sent, data, file_pos>>
       \/ \E r \in Responses :
            LET tr == Append(trace, Ev("recv", Wire(r), r.digits, 0, connected, TRUE))
            IN  CASE r.kind = "binary" ->
                       /\ raise("UnicodeDecodeError", tr)
                       /\ UNCHANGED <<response, bytes_sent, data, file_pos>>
                  [] is_protocol_error(r) ->
                       /\ response' = r
                       /\ log_ERR("server", r.text, protocol_errors[r.text], tr)
                       /\ UNCHANGED <<bytes_sent, data, file_pos>>
                  [] is_protocol_message(r) ->
                       /\ response' = r
                       /\ \E delivered \in BOOLEAN :
                            LET filesize == str(file.size)
                                ok == sendall_returns(delivered)
                                tr2 == Append(tr, Ev("send", "size", filesize, 0, connected, ok))
                            IN  IF ~ok
                                THEN /\ raise("OSError", tr2)
                                     /\ UNCHANGED <<bytes_sent, data, file_pos>>
                                ELSE IF get_filesize_raises(int_digits(filesize))
                                THEN /\ raise("IndexError", tr2)
                                     /\ UNCHANGED <<bytes_sent, data, file_pos>>
                                ELSE /\ goto("put_stream", tr2)
                                     /\ bytes_sent' = Big(0, 0)
                                     /\ data' = read(Big(0, 0))
                                     /\ file_pos' = BigAdd(Big(0, 0), read(Big(0, 0)))
                  [] OTHER ->
                       /\ response' = r
                       /\ pc' = "done"
                       /\ exit' = Returned
                       /\ trace' = tr
                       /\ UNCHANGED <<connected, bytes_sent, data, file_pos>>
    /\ UNCHANGED <<command, file, sock, file_size, bytes_collected, iterations,
                   download_file>>

\* put_file, one iteration of "while data": count, format, send, read on
put_file_chunk ==
    /\ pc = "put_stream"
    /\ data > 0
    /\ iterations < MaxChunks
    /\ bytes_sent' = BigAdd(bytes_sent, data)
    /\ IF get_filesize_raises(BigAdd(bytes_sent, data))
       THEN /\ raise("IndexError", trace)
            /\ UNCHANGED <<data, file_pos, iterations>>
       ELSE \E delivered \in BOOLEAN :
              LET ok == sendall_returns(delivered)
                  tr == Append(trace, Ev("send", "chunk", <<>>, data, connected, ok))
              IN  IF ~ok
                  THEN /\ raise("OSError", tr)
                       /\ UNCHANGED <<data, file_pos, iterations>>
                  ELSE /\ goto("put_stream", tr)
                       /\ data' = read(file_pos)
                       /\ file_pos' = BigAdd(file_pos, read(file_pos))
                       /\ iterations' = iterations + 1
    /\ UNCHANGED <<command, file, sock, response, file_size, bytes_collected,
                   download_file>>

\* put_file, after the loop: log("UPL", ...) reads current_size, which only
\* an iteration assigns
put_file_complete ==
    /\ pc = "put_stream"
    /\ data = 0
    /\ IF iterations = 0
       THEN raise("UnboundLocalError", trace)
       ELSE /\ pc' = "done"
            /\ exit' = Returned
            /\ UNCHANGED <<trace, connected>>
    /\ UNCHANGED <<command, file, sock, response, file_size, bytes_collected,
                   bytes_sent, data, file_pos, iterations, download_file>>

\* a check whose error does not end the run
get_file_check_continues ==
    /\ pc = "get_check"
    /\ goto("connect", trace)
    /\ UNCHANGED <<command, file, sock, response, file_size, bytes_collected,
                   bytes_sent, data, file_pos, iterations, download_file>>

\* get_file: a file of that name in the working directory is a fatal error
get_file_check ==
    /\ pc = "get_check"
    /\ IF file.exists
       THEN log_ERR("local", "FileAlreadyExists", protocol_errors["FileAlreadyExists"], trace)
       ELSE goto("connect", trace)
    /\ UNCHANGED <<command, file, sock, response, file_size, bytes_collected,
                   bytes_sent, data, file_pos, iterations, download_file>>

get_file_request ==
    /\ pc = "get_request"
    /\ request("GET", "get_recv")

\* get_file: recv(1024), the classification, int(response), the formatted
\* total and the creation of the local file
get_file_response ==
    /\ pc = "get_recv"
    /\ \/ /\ raise("OSError", Append(trace, Ev("recv", "", <<>>, 0, connected, FALSE)))
          /\ UNCHANGED <<response, file_size, bytes_collected, download_file>>
       \/ \E r \in Responses :
            LET tr == Append(trace, Ev("recv", Wire(r), r.digits, 0, connected, TRUE))
            IN  CASE r.kind = "binary" ->
                       /\ raise("UnicodeDecodeError", tr)
                       /\ UNCHANGED <<response, file_size, bytes_collected, download_file>>
                  [] is_protocol_error(r) ->
                       /\ response' = r
                       /\ log_ERR("server", r.text, protocol_errors[r.text], tr)
                       /\ UNCHANGED <<file_size, bytes_collected, download_file>>
                  [] OTHER ->
                       /\ response' = r
                       /\ IF int_raises(r)
                          THEN /\ raise("ValueError", tr)
                               /\ UNCHANGED <<file_size, bytes_collected, download_file>>
                          ELSE /\ file_size' = int(r)
                               /\ bytes_collected' = Big(0, 0)
                               /\ IF get_filesize_raises(int(r))
                                  THEN /\ raise("IndexError", tr)
                                       /\ UNCHANGED download_file
                                  ELSE /\ goto("get_stream", tr)
                                       /\ download_file' = [created |-> TRUE,
                                                            written |-> Big(0, 0),
                                                            closed |-> FALSE]
    /\ UNCHANGED <<command, file, sock, bytes_sent, data, file_pos, iterations>>

\* a loop test that goes round once more on equality
get_file_more_le == BigLE(bytes_collected, file_size)

\* the test of get_file's while loop
get_file_more == BigLT(bytes_collected, file_size)

\* get_file, one iteration of the loop: recv(4096), count, format, write
get_file_chunk ==
    /\ pc = "get_stream"
    /\ get_file_more
    /\ iterations < MaxRecvs
    /\ \/ /\ raise("OSError", Append(trace, Ev("recv", "", <<>>, 0, connected, FALSE)))
          /\ UNCHANGED <<bytes_collected, download_file, iterations>>
       \/ \E n \in RecvLens :
            LET tr == Append(trace, Ev("recv", "chunk", <<>>, n, connected, TRUE))
            IN  /\ bytes_collected' = BigAdd(bytes_collected, n)
                /\ IF get_filesize_raises(BigAdd(bytes_collected, n))
                   THEN /\ raise("IndexError", tr)
                        /\ UNCHANGED <<download_file, iterations>>
                   ELSE /\ goto("get_stream", tr)
                        /\ download_file' =
                             [download_file EXCEPT !.written = BigAdd(@, n)]
                        /\ iterations' = iterations + 1
    /\ UNCHANGED <<command, file, sock, response, file_size, bytes_sent, data,
                   file_pos>>

\* get_file, after the loop: close, then log("DWN", ...) reads current_size,
\* which only an iteration assigns
get_file_complete ==
    /\ pc = "get_stream"
    /\ ~get_file_more
    /\ download_file' = [download_file EXCEPT !.closed = TRUE]
    /\ IF iterations = 0
       THEN raise("UnboundLocalError", trace)
       ELSE /\ pc' = "done"
            /\ exit' = Returned
            /\ UNCHANGED <<trace, connected>>
    /\ UNCHANGED <<command, file, sock, response, file_size, bytes_collected,
                   bytes_sent, data, file_pos, iterations>>

show_list_request ==
    /\ pc = "list_request"
    /\ request("LIST", "list_recv")

\* a show_list that takes an empty response for a listing
show_list_response_unchecked ==
    /\ pc = "list_recv"
    /\ \E r \in ListResponses :
         /\ response' = r
         /\ pc' = "done"
         /\ exit' = Returned
         /\ trace' = Append(trace, Ev("recv", Wire(r), <<>>, 0, connected, TRUE))
         /\ UNCHANGED connected
    /\ UNCHANGED <<command, file, sock, file_size, bytes_collected, bytes_sent,
                   data, file_pos, iterations, download_file>>

\* show_list: recv(16384); an empty response is fatal, another is printed
show_list_response ==
    /\ pc = "list_recv"
    /\ \/ /\ raise("OSError", Append(trace, Ev("recv", "", <<>>, 0, connected, FALSE)))
          /\ UNCHANGED response
       \/ \E r \in ListResponses :
            LET tr == Append(trace, Ev("recv", Wire(r), <<>>, 0, connected, TRUE))
            IN  /\ response' = r
                /\ CASE r = Text("") ->
                          log_ERR("local", "", "Server responded without a file list.", tr)
                     [] r.kind = "binary" ->
                          raise("UnicodeDecodeError", tr)
                     [] OTHER ->
                          /\ pc' = "done"
                          /\ exit' = Returned
                          /\ trace' = tr
                          /\ UNCHANGED connected
    /\ UNCHANGED <<command, file, sock, file_size, bytes_collected, bytes_sent,
                   data, file_pos, iterations, download_file>>

Next ==
    \/ start
    \/ connect
    \/ put_file_validate
    \/ put_file_request
    \/ put_file_response
    \/ put_file_chunk
    \/ put_file_complete
    \/ get_file_check
    \/ get_file_request
    \/ get_file_response
    \/ get_file_chunk
    \/ get_file_complete
    \/ show_list_request
    \/ show_list_response

Spec == Init /\ [][Next]_vars

(***************************************************************************)
(* get_filesize on its own: the argument is drawn from FormatInputs and    *)
(* the loop is run one division at a time.  file_size holds the argument   *)
(* size_bytes as passed, iterations holds i, exit the outcome: the suffix  *)
(* sizes[i] or the IndexError.                                             *)
(***************************************************************************)
FormatInputs ==
    { BigOf(0 - 5000), BigOf(0), BigOf(1), BigOf(ChunkSize), MaxPutSize,
      BigAdd(MaxPutSize, 1) }
    \cup { BigAdd(Pow1024(k), d) : k \in 1..5, d \in {0 - 1, 0, 1} }
    \cup { Big(0, 1536), Big(0, 2048), Big(1, 524288), Big(2, 0), Big(10, 0),
           Big(1536, 0), Big(2048, 0), Big(2 * 1024 * 1024, 0) }

FormatInit ==
    /\ command = "get_filesize"
    /\ file = NoFileArg
    /\ pc = "format"
    /\ sock = "fresh"
    /\ connected = FALSE
    /\ trace = <<>>
    /\ response = Text("")
    /\ file_size \in FormatInputs
    /\ bytes_collected = Big(0, 0)
    /\ bytes_sent = Big(0, 0)
    /\ data = 0
    /\ file_pos = Big(0, 0)
    /\ iterations = 0
    /\ download_file = NoFile
    /\ exit = Running

\* one pass of the loop body: size_bytes / 1024.00, i += 1
get_filesize_step ==
    /\ pc = "format"
    /\ get_filesize_test(file_size, iterations)
    /\ iterations' = iterations + 1
    /\ UNCHANGED <<command, file, pc, sock, connected, trace, response, file_size,
                   bytes_collected, bytes_sent, data, file_pos, download_file, exit>>

\* return "%0.2f%s" % (size_bytes, sizes[i])
get_filesize_return ==
    /\ pc = "format"
    /\ ~get_filesize_test(file_size, iterations)
    /\ IF iterations >= Len(sizes)
       THEN /\ pc' = "crash"
            /\ exit' = Uncaught("IndexError")
       ELSE /\ pc' = "done"
            /\ exit' = [Returned EXCEPT !.token = sizes[iterations + 1]]
    /\ UNCHANGED <<command, file, sock, connected, trace, response, file_size,
                   bytes_collected, bytes_sent, data, file_pos, iterations,
                   download_file>>

FormatNext == get_filesize_step \/ get_filesize_return

FormatSpec == FormatInit /\ [][FormatNext]_vars

TypeOK ==
    /\ pc \in {"start", "connect", "put_validate", "put_request", "put_recv",
               "put_stream", "get_check", "get_request", "get_recv",
               "get_stream", "list_request", "list_recv", "done", "exit", "crash"}
    /\ connected \in BOOLEAN
    /\ sock \in {"fresh", "connected", "closed"}
    /\ data \in 0..ChunkSize
    /\ bytes_sent.lo \in 0..(Base - 1)
    /\ bytes_collected.lo \in 0..(Base - 1)

(***************************************************************************)
(* Vocabulary of the properties                                            *)
(***************************************************************************)
Terminated == pc \in {"done", "exit", "crash"}

Calls == 1..Len(trace)

\* positions of the sends of msg
SendsOf(msg) == { i \in Calls : trace[i].op = "send" /\ trace[i].msg = msg }

\* positions of the sends of an error token
TokenSends == { i \in Calls : trace[i].op = "send" /\ trace[i].msg \in ErrorTokens }

ConnectCalls == { i \in Calls : trace[i].op = "connect" }

\* positions of the chunks that went out / came in
ChunkSends == { i \in SendsOf("chunk") : trace[i].ok }

ChunkRecvs == { i \in Calls : trace[i].op = "recv" /\ trace[i].msg = "chunk" /\ trace[i].ok }

RECURSIVE SumLen(_)
SumLen(S) ==
    IF S = {}
    THEN 0
    ELSE LET i == CHOOSE x \in S : TRUE
         IN  trace[i].len + SumLen(S \ {i})

(***************************************************************************)
(* C1: every send and every receive on the socket is made while            *)
(* connected = TRUE.  The code breaks it: put_file's validation sends its  *)
(* token on the socket connect() has not touched, and disconnect resets    *)
(* connected before it sends DISCONNECT.                                   *)
(***************************************************************************)
C1_SocketCallsOnlyWhileConnected ==
    \A i \in Calls : trace[i].op \in {"send", "recv"} => trace[i].conn

(***************************************************************************)
(* C2: a PUT whose local validation fails has delivered the matching token *)
(* to the peer when it ends, and ends with SystemExit carrying that        *)
(* token's error.  The code breaks it: the send raises OSError on the      *)
(* unconnected socket, nothing is delivered and the run dies with the      *)
(* OSError.                                                                *)
(***************************************************************************)
C2_TokenDeliveredThenFatal ==
    (command = "put" /\ put_file_check(file) # "" /\ Terminated)
    => /\ \E i \in SendsOf(put_file_check(file)) : trace[i].ok
       /\ exit = SystemExit("local", put_file_check(file),
                            protocol_errors[put_file_check(file)])

(***************************************************************************)
(* C3: the five checks are evaluated in the order FileNotFound,            *)
(* FileNameTooLong, FileIsDirectory, FileTooLarge, FileZeroSized: once     *)
(* validation has run, the tokens passed to sendall are exactly the token  *)
(* of the first check in that order that fails, once, and none when all    *)
(* pass.                                                                   *)
(***************************************************************************)
CheckOrder ==
    <<"FileNotFound", "FileNameTooLong", "FileIsDirectory", "FileTooLarge", "FileZeroSized">>

CheckFails(f, k) ==
    CASE k = 1 -> ~f.exists
      [] k = 2 -> f.nameLen > 255
      [] k = 3 -> f.exists /\ f.isDir
      [] k = 4 -> f.exists /\ BigGT(f.size, Big(5120, 0))
      [] k = 5 -> f.exists /\ f.size = Big(0, 0)

Failing(f) == { k \in 1..5 : CheckFails(f, k) }

FirstFailing(f) == CHOOSE k \in Failing(f) : \A j \in Failing(f) : k <= j

Validated == command = "put" /\ pc \notin {"start", "put_validate"}

C3_FirstFailingCheckOnly ==
    Validated =>
        IF Failing(file) = {}
        THEN TokenSends = {}
        ELSE /\ Cardinality(TokenSends) = 1
             /\ \A i \in TokenSends : trace[i].msg = CheckOrder[FirstFailing(file)]

\* a file failing two checks: missing and with a name too long
C3_Witness ==
    /\ Validated
    /\ ~file.exists /\ file.nameLen > 255
    /\ \E i \in TokenSends : trace[i].msg = "FileNotFound"

(***************************************************************************)
(* C4: for every filename longer than 255 characters, whether the file     *)
(* exists or not, validation emits exactly FileNameTooLong, before any     *)
(* request line or size.  The code breaks it: the existence check comes    *)
(* first, so a long name that names no file emits FileNotFound.            *)
(***************************************************************************)
C4_LongNameEmitsFileNameTooLong ==
    (Validated /\ file.nameLen > 255)
    => /\ TokenSends # {}
       /\ \A i \in TokenSends : trace[i].msg = "FileNameTooLong"
       /\ SendsOf("PUT") = {} /\ SendsOf("size") = {}

(***************************************************************************)
(* C5: for an existing zero-byte regular file with a name of at most 255   *)
(* characters the run never connects, never sends the PUT request line and *)
(* never sends a size, and once validation has run FileZeroSized is the    *)
(* token passed to sendall.                                                *)
(***************************************************************************)
ZeroByteFile ==
    /\ command = "put"
    /\ file.exists /\ ~file.isDir /\ file.nameLen <= 255
    /\ file.size = Big(0, 0)

C5_ZeroSizedNeverNegotiates ==
    ZeroByteFile
    => /\ ConnectCalls = {} /\ ~connected /\ pc # "connect"
       /\ SendsOf("PUT") = {} /\ SendsOf("size") = {}
       /\ Validated => \E i \in TokenSends : trace[i].msg = "FileZeroSized"

C5_Witness ==
    /\ ZeroByteFile
    /\ Terminated
    /\ \E i \in TokenSends : trace[i].msg = "FileZeroSized"

(***************************************************************************)
(* C6 as stated: a GET for a name that exists locally logs                 *)
(* FileAlreadyExists and goes on to connect.  Stated on the run's end: a   *)
(* GET run for an existing file has called connect when it ends.           *)
(***************************************************************************)
C6_ExistingFileStillConnects ==
    (command = "get" /\ file.exists /\ Terminated) => ConnectCalls # {}

(***************************************************************************)
(* C6 amended: a GET for a name that exists locally ends at the check:     *)
(* log("ERR") raises SystemExit with the FileAlreadyExists error, and the  *)
(* run has made no connect and no socket call at all.                      *)
(***************************************************************************)
C6_ExistingFileAborts ==
    (command = "get" /\ file.exists /\ pc \notin {"start", "get_check"})
    => /\ pc = "exit"
       /\ exit = SystemExit("local", "FileAlreadyExists",
                            "File already exists in current directory")
       /\ trace = <<>>
       /\ ~connected

C6_Witness ==
    /\ command = "get" /\ file.exists
    /\ pc = "exit"
    /\ exit.token = "FileAlreadyExists"

(***************************************************************************)
(* C7: after an informational readiness response, PUT sends the decimal    *)
(* file size and then only chunks, with no receive after the response;     *)
(* every chunk but possibly the last has 4096 bytes, bytes_sent is the     *)
(* sum of the chunks sent, and a finished upload of N bytes has sent       *)
(* ceil(N / 4096) chunks and N bytes, with bytes_sent = N.                 *)
(***************************************************************************)
Uploading ==
    /\ command = "put"
    /\ response.kind = "text"
    /\ response.text \in {"FileOkTransfer", "FileSizeReceived"}
    /\ pc \in {"put_stream", "done"}

CeilChunks(n) == n.hi * (Base \div 4096) + ((n.lo + 4095) \div 4096)

Last(S) == CHOOSE i \in S : \A j \in S : j <= i

C7_SizeThenChunks ==
    Uploading
    => /\ Cardinality(SendsOf("size")) = 1
       /\ \A s \in SendsOf("size") :
            /\ int_digits(trace[s].val) = file.size
            /\ file.size = Big(0, 8193) => trace[s].val = <<8, 1, 9, 3>>
            /\ s > 1 /\ trace[s - 1].op = "recv"
            /\ \A j \in Calls : j > s => trace[j].op = "send" /\ trace[j].msg = "chunk"
            /\ \A j \in Calls : j < s => trace[j].msg # "chunk"
       /\ \A i \in ChunkSends :
            /\ trace[i].len \in 1..4096
            /\ i # Last(ChunkSends) => trace[i].len = 4096
       /\ bytes_sent = BigOf(SumLen(ChunkSends))
       /\ Cardinality(ChunkSends) = iterations
       /\ pc = "done" =>
            /\ Cardinality(ChunkSends) = CeilChunks(file.size)
            /\ bytes_sent = file.size

\* a finished upload of two full chunks and a last chunk of one byte
C7_Witness ==
    /\ Uploading
    /\ pc = "done"
    /\ file.size = Big(0, 8193)
    /\ Cardinality(ChunkSends) = 3

Before(i) == { j \in ChunkRecvs : j < i }

NonNegative(b) == IF b.hi < 0 THEN Big(0, 0) ELSE b

C9_DisconnectOnSuccess ==
    (pc = "done" /\ \E i \in ConnectCalls : trace[i].ok)
    => /\ SendsOf("DISCONNECT") # {}
       /\ ~connected

(***************************************************************************)
(* C10: when the first response to the PUT or GET request is one of the    *)
(* six error tokens, the run ends with SystemExit carrying that token and  *)
(* its description; no size and no chunk has been sent and no local file   *)
(* has been created.                                                       *)
(***************************************************************************)
FirstResponses ==
    { i \in Calls : trace[i].op = "recv" /\ trace[i].ok /\ trace[i].msg # "chunk" }

Description(t) ==
    CASE t = "FileAlreadyExists" -> "File already exists in current directory"
      [] t = "FileNotFound" -> "File could not be found in current directory"
      [] t = "FileTooLarge" -> "File is too large to transfer (over 5GB in size)"
      [] t = "FileZeroSized" -> "File is a zero-sized file (does not contain data)"
      [] t = "FileNameTooLong" -> "Filename of file is too long (over 255 chars)"
      [] t = "FileIsDirectory" -> "File is actually a directory (folder containing files)"

C10_ServerErrorIsFatal ==
    \A i \in FirstResponses :
        (command \in {"put", "get"}
           /\ trace[i].msg \in {"FileAlreadyExists", "FileNotFound", "FileTooLarge",
                                "FileZeroSized", "FileNameTooLong", "FileIsDirectory"})
        => /\ pc = "exit"
           /\ exit = SystemExit("server", trace[i].msg, Description(trace[i].msg))
           /\ SendsOf("size") = {} /\ SendsOf("chunk") = {}
           /\ ~download_file.created
           /\ \A j \in Calls : j > i => trace[j].msg = "DISCONNECT"

C10_Witness ==
    /\ command = "get"
    /\ pc = "exit"
    /\ \E i \in FirstResponses : trace[i].msg = "FileNotFound"
    /\ exit.text = "File could not be found in current directory"

(***************************************************************************)
(* C11 as stated, on the run's end: a LIST run that received a non-empty   *)
(* response has ended successfully.                                        *)
(***************************************************************************)
ListReceived ==
    { i \in Calls : command = "list" /\ trace[i].op = "recv" /\ trace[i].ok }

C12_InfoTokenContinues ==
    \A i \in FirstResponses :
        (command = "get" /\ trace[i].msg \in {"FileOkTransfer", "FileSizeReceived"})
        => /\ pc # "crash"
           /\ exit.kind # "ValueError"

(***************************************************************************)
(* C13: once GET streams with an announced size N > 0, the run reaches     *)
(* Done or Failed in every execution in which every receive returns, the   *)
(* executions in which the peer has closed and receive returns nothing     *)
(* included.  bytes_collected is all the state the loop has, so the claim  *)
(* is stated on one step: a receive that returns and leaves the run in the *)
(* loop has raised bytes_collected.  The code breaks it: an empty receive  *)
(* adds 0 and the loop test is the same again, and a closed peer answers   *)
(* every receive with nothing.                                             *)
(***************************************************************************)
C13_EachReceiveProgresses ==
    [][(pc = "get_stream" /\ BigGT(file_size, Big(0, 0)) /\ pc' = "get_stream")
         => BigLT(bytes_collected, bytes_collected')]_vars

(***************************************************************************)
(* C14: a PUT readiness response in neither token table is a fatal         *)
(* protocol violation: the run ends failed, not done, and no size and no   *)
(* chunk is sent.  The code breaks it: put_file has no branch for such a   *)
(* response and returns, so the run ends as a success.                     *)
(***************************************************************************)
KnownTokens ==
    {"FileAlreadyExists", "FileNotFound", "FileTooLarge", "FileZeroSized",
     "FileNameTooLong", "FileIsDirectory", "FileOkTransfer", "FileSizeReceived"}

C14_UnexpectedResponseFails ==
    \A i \in FirstResponses :
        (command = "put" /\ trace[i].msg \notin KnownTokens)
        => /\ pc \in {"exit", "crash"}
           /\ exit # Returned
           /\ SendsOf("size") = {} /\ SendsOf("chunk") = {}

(***************************************************************************)
(* C15: the fatal errors raised on an open connection are those of         *)
(* log("ERR") after a response: an error token answering PUT or GET, an    *)
(* empty answer to LIST.  On each the client makes exactly one DISCONNECT  *)
(* send, right after the response and as its last socket call, and ends    *)
(* with SystemExit carrying the error of the response, whether the         *)
(* DISCONNECT send returned or raised OSError.                             *)
(***************************************************************************)
FatalResponse(i) ==
    IF command = "list"
    THEN trace[i].msg = ""
    ELSE trace[i].msg \in {"FileAlreadyExists", "FileNotFound", "FileTooLarge",
                           "FileZeroSized", "FileNameTooLong", "FileIsDirectory"}

C16_ConnectFailureIsFinal ==
    \A i \in ConnectCalls :
        trace[i].msg = "refused"
        => /\ Len(trace) = i
           /\ sock = "closed"
           /\ ~connected
           /\ pc = "exit"
           /\ exit = SystemExit("connect", "", "An error occurred when connecting to host")
           /\ \A j \in Calls : trace[j].op # "send"

C16_Witness ==
    /\ pc = "exit"
    /\ exit.origin = "connect"
    /\ sock = "closed"
    /\ \E i \in ConnectCalls : ~trace[i].ok

(***************************************************************************)
(* C17: there is no retry: a run calls connect at most once and sends at   *)
(* most one request line, the one of its command; and once the run has     *)
(* ended with an error (SystemExit or an uncaught exception) it makes no   *)
(* further socket call: no request line, no size, no chunk.                *)
(***************************************************************************)
RequestLines ==
    { i \in Calls : trace[i].op = "send" /\ trace[i].msg \in {"PUT", "GET", "LIST"} }

RequestOf(c) ==
    CASE c = "put" -> "PUT"
      [] c = "get" -> "GET"
      [] c = "list" -> "LIST"

OneConnectOneRequest ==
    /\ Cardinality(ConnectCalls) <= 1
    /\ Cardinality(RequestLines) <= 1
    /\ \A i \in RequestLines :
         /\ trace[i].msg = RequestOf(command)
         /\ \E j \in ConnectCalls : j < i /\ trace[j].ok

NothingAfterError ==
    pc \in {"exit", "crash"} => (trace' = trace /\ pc' = pc)

C17_NoRetry == []OneConnectOneRequest /\ [][NothingAfterError]_vars

\* a run that connected, sent its request and ended with an error
C17_Witness ==
    /\ pc = "exit"
    /\ Cardinality(ConnectCalls) = 1
    /\ Cardinality(RequestLines) = 1

(***************************************************************************)
(* C18 as stated: the division count of get_filesize is inside the table   *)
(* of 4 suffixes for every byte count below 1024^4 and outside it for      *)
(* every byte count of 1024^4 or more.                                     *)
(***************************************************************************)
Formatted == command = "get_filesize" /\ pc \in {"done", "crash"}

C18_OutsideFromTebibyte ==
    Formatted => (iterations < 4 <=> BigLT(file_size, Big(1024 * 1024, 0)))

(***************************************************************************)
(* C18 amended: the loop divides while the value exceeds 1024 and fewer    *)
(* than 5 divisions were made, so the division count is the number of      *)
(* powers 1024^1 .. 1024^5 the byte count exceeds; it is inside the table  *)
(* (B, KB, MB, GB) for every byte count up to and including 1024^4, which  *)
(* is formatted in GB, and outside it, raising IndexError, for every byte  *)
(* count above 1024^4.                                                     *)
(***************************************************************************)
Exceeded(size) ==
    { k \in 1..5 :
        BigLT(CASE k = 1 -> Big(0, 1024)
                [] k = 2 -> Big(1, 0)
                [] k = 3 -> Big(1024, 0)
                [] k = 4 -> Big(1024 * 1024, 0)
                [] k = 5 -> Big(1024 * 1024 * 1024, 0), size) }

C18_OutsideAboveTebibyte ==
    /\ command = "get_filesize" => iterations \in 0..5
    /\ Formatted =>
         /\ iterations = Cardinality(Exceeded(file_size))
         /\ iterations < 4 <=> BigLE(file_size, Big(1024 * 1024, 0))
         /\ pc = "crash" <=> iterations >= 4
         /\ pc = "crash" => exit.kind = "IndexError"
         /\ pc = "done" => exit.token = <<"B", "KB", "MB", "GB">>[iterations + 1]

\* exactly 1024^4 bytes: three divisions, suffix GB
C18_Witness ==
    /\ Formatted
    /\ file_size = Big(1024 * 1024, 0)
    /\ iterations = 3
    /\ exit.token = "GB"

(***************************************************************************)
(* C19: every byte count PUT gives to get_filesize, the total size and     *)
(* each value of bytes_sent, is at most 5368709120 and selects an index of *)
(* at most 3, so PUT never ends with the IndexError of the formatter.  GET *)
(* formats the announced size unchecked: an announced size above 1024^4    *)
(* ends the run with IndexError before the local file is created.          *)
(***************************************************************************)
FiveGiB == Big(5120, 0)

C19_PutWithinTable ==
    /\ command = "put" =>
         /\ BigLE(bytes_sent, FiveGiB)
         /\ get_filesize(bytes_sent) <= 3
         /\ exit.kind # "IndexError"
         /\ SendsOf("size") # {} =>
              /\ BigLE(file.size, FiveGiB)
              /\ BigLE(bytes_sent, file.size)
              /\ get_filesize(file.size) <= 3
              /\ \A s \in SendsOf("size") : BigLE(int_digits(trace[s].val), FiveGiB)
    /\ \A i \in FirstResponses :
         (command = "get" /\ trace[i].msg = "decimal"
            /\ BigGT(int_digits(trace[i].val), Big(1024 * 1024, 0)))
         => /\ pc = "crash"
            /\ exit.kind = "IndexError"
            /\ ~download_file.created

\* the largest file PUT accepts, with chunks under way
C19_Witness ==
    /\ command = "put"
    /\ file.size = FiveGiB
    /\ pc = "put_stream"
    /\ iterations >= 1
    /\ bytes_sent = BigOf(iterations * 4096)

(***************************************************************************)
(* C20: a run sends DISCONNECT at most once, only after a connect that     *)
(* succeeded, and makes no socket call after it; a disconnect() called     *)
(* while connected is FALSE (the fatal errors before or at connect) sends  *)
(* nothing and leaves connected and the socket as they were.               *)
(***************************************************************************)
Connects == { i \in ConnectCalls : trace[i].ok }

C20_DisconnectOnceAndLast ==
    /\ Cardinality(SendsOf("DISCONNECT")) <= 1
    /\ \A i \in SendsOf("DISCONNECT") :
         /\ \E j \in Connects : j < i
         /\ i = Len(trace)
         /\ ~connected
         /\ pc = "exit"
    /\ (pc = "exit" /\ Connects = {}) =>
         /\ SendsOf("DISCONNECT") = {}
         /\ \A i \in Calls : trace[i].op = "connect"
         /\ ~connected
         /\ sock \in {"fresh", "closed"}
         /\ sock = "closed" <=> ConnectCalls # {}

\* disconnect() on an open connection: one DISCONNECT, the last call
C20_Witness ==
    /\ pc = "exit"
    /\ Connects # {}
    /\ Len(trace) \in SendsOf("DISCONNECT")
    /\ trace[Len(trace)].ok
====
